---- MODULE Spec2Model ----
(***************************************************************************)
(* alexdebrie/sam-auth: the Lambda handlers of the orders service.         *)
(*                                                                         *)
(*   authorizer          src/unnamed/part_000 (step 5 custom authorizer)   *)
(*   createOrder1        src/01-create-order/src/createOrder.js (steps 1,5)*)
(*   createOrder3        src/README.md:42-78 (step 3, hard-coded token)    *)
(*   createOrder4        src/04-parameter-store/src/createOrder.js:1-42    *)
(*   createOrderCached   the same file, 199-212 (module-level AUTH_TOKEN)  *)
(*   getOrder            src/04-parameter-store/src/getOrder.js            *)
(*                                                                         *)
(* A handler is an async function: it runs synchronously up to an await,   *)
(* and its continuation runs when the awaited promise settles.  The        *)
(* invocations suspended at an await form the bag `pending`; the one that  *)
(* settled last is `completed`.  Parameter Store and the DynamoDB table    *)
(* are the environment: the parameter can be edited, Parameter Store can   *)
(* fail and recover, a DynamoDB request can fail.                          *)
(***************************************************************************)
EXTENDS Naturals, Sequences, FiniteSets, Bags, TLC

(* ----------------------------- bounds --------------------------------- *)

\* Invocations that may be suspended at an await together.
MaxPending == 2

\* The clock readings are 0..MaxClock (milliseconds after the first one).
MaxClock == 1

\* The tokens that are compared have at most MaxTokenLen code units.
MaxTokenLen == 3

(* --------------------------- JS values -------------------------------- *)

Undefined == [t |-> "undefined"]

Null == [t |-> "null"]

Str(s) == [t |-> "string", v |-> s]

\* An object: its own properties in insertion order, <<key, value>> pairs.
Obj(props) == [t |-> "object", props |-> props]

\* ToBoolean of undefined, null or a string: undefined, null and "" are falsy.
Falsy(x) == x.t \in {"undefined", "null"} \/ (x.t = "string" /\ x.v = "")

\* a !== b : the operands differ in type or in value.
StrictNotEquals(a, b) == a # b

(* ------------------------- Parameter Store ---------------------------- *)

\* Values the OrderToken parameter can hold: Parameter.Value of the
\* GetParameter response is a string.
StoreValues == {Str(""), Str("token123"), Str("token124")}

\* Tokens a caller can present (Authorization header / authorizationToken).
PresentedTokens == {Undefined, Str(""), Str("token123"), Str("token124")}

MethodArns == {Undefined, Str("/orders"), Str("/orders/77")}

(* ------------------------------ state --------------------------------- *)

VARIABLES
    ssmValue,      \* Parameter Store: the Value of parameter "OrderToken"
    ssmAvailable,  \* whether getParameter currently succeeds
    table,         \* the orders table: a set of items, at most one per orderId
    now,           \* the clock, in milliseconds after the first reading
    AUTH_TOKEN,    \* the module-level variable of the cached variant
    pending,       \* bag of the invocations suspended at an await
    completed,     \* the invocation that settled last
    acked,         \* history: per orderId, the first item answered with a 200
    filled,        \* history: a getParameter result was assigned to AUTH_TOKEN
    remembered,    \* history: an invocation that settled earlier
    comparison     \* the last evaluation of `!==` on a token and a credential

vars == <<ssmValue, ssmAvailable, table, now, AUTH_TOKEN, pending, completed,
          acked, filled, remembered, comparison>>

NoItem == Undefined

\* An invocation of `handler` with `event`, at its first statement.
\*   pc        where it is suspended ("done" once it has settled)
\*   item      the Item of its put
\*   afterAck  (getOrder) a 200 for its orderId was returned before it began
\*   token     the AUTH_TOKEN its check read
\*   read      its getParameter call resolved
\*   ssmCalls, puts   the getParameter and put calls it has issued
\*   putOk     its put resolved
\*   outcome   what the handler's promise settled with
Invocation(handler, event) ==
    [handler |-> handler, event |-> event, pc |-> "start", item |-> NoItem,
     afterAck |-> FALSE, token |-> Undefined, read |-> FALSE, ssmCalls |-> 0,
     puts |-> 0, putOk |-> FALSE, outcome |-> [kind |-> "none"]]

Returned(c, v) ==
    [c EXCEPT !.pc = "done", !.outcome = [kind |-> "returned", value |-> v]]

Rejected(c, e) ==
    [c EXCEPT !.pc = "done", !.outcome = [kind |-> "rejected", error |-> e]]

NothingSettled == Invocation("none", Obj(<<>>))

Init ==
    /\ ssmValue = Str("token123")
    /\ ssmAvailable = TRUE
    /\ table = {}
    /\ now = 0
    /\ AUTH_TOKEN = Null
    /\ pending = EmptyBag
    /\ completed = NothingSettled
    /\ acked = {}
    /\ filled = FALSE
    /\ remembered = NothingSettled
    /\ comparison = [presented |-> Undefined, credential |-> Str(""),
                     differ |-> TRUE, examined |-> 0]

\* The suspended invocations other than c, which resumes.
Resume(c) == pending (-) SetToBag({c})

CanInvoke == BagCardinality(pending) < MaxPending

\* Invocation d has run to its next await or to its end; `others` are the
\* other suspended invocations.
Proceed(others, d) ==
    /\ pending' = IF d.pc = "done" THEN others ELSE others (+) SetToBag({d})
    /\ completed' = IF d.pc = "done" THEN d ELSE completed

(* ----------------------- environment actions -------------------------- *)

\* The parameter is edited in the console (token rotation).
PutParameter(v) ==
    /\ v # ssmValue
    /\ ssmValue' = v
    /\ UNCHANGED <<ssmAvailable, table, now, AUTH_TOKEN, pending, completed,
                   acked, filled, remembered, comparison>>

SSMFail ==
    /\ ssmAvailable
    /\ ssmAvailable' = FALSE
    /\ UNCHANGED <<ssmValue, table, now, AUTH_TOKEN, pending, completed,
                   acked, filled, remembered, comparison>>

SSMRecover ==
    /\ ~ssmAvailable
    /\ ssmAvailable' = TRUE
    /\ UNCHANGED <<ssmValue, table, now, AUTH_TOKEN, pending, completed,
                   acked, filled, remembered, comparison>>

(* --------------------------- authorizer ------------------------------- *)

DenyPolicyOldVersion ==
    [principalId |-> "vendor",
     policyDocument |->
        [Version |-> "2008-10-17",
         Statement |-> << [Action |-> "execute-api:Invoke",
                           Effect |-> "Deny",
                           Resource |-> Str("*")] >>]]

DenyPolicy ==
    [principalId |-> "vendor",
     policyDocument |->
        [Version |-> "2012-10-17",
         Statement |-> << [Action |-> "execute-api:Invoke",
                           Effect |-> "Deny",
                           Resource |-> Str("*")] >>]]

AllowPolicyWildcard(event) ==
    [DenyPolicy EXCEPT !.policyDocument.Statement[1].Effect = "Allow"]

AllowPolicy(event) ==
    [principalId |-> "vendor",
     policyDocument |->
        [Version |-> "2012-10-17",
         Statement |-> << [Action |-> "execute-api:Invoke",
                           Effect |-> "Allow",
                           Resource |-> event.methodArn] >>]]

AuthorizerPolicyDenyScoped(event, token) ==
    IF StrictNotEquals(event.authorizationToken, token)
    THEN [DenyPolicy EXCEPT
             !.policyDocument.Statement[1].Resource = event.methodArn]
    ELSE AllowPolicy(event)

\* The statements after AUTH_TOKEN is bound: the comparison and the returns.
AuthorizerPolicy(event, token) ==
    IF StrictNotEquals(event.authorizationToken, token)
    THEN DenyPolicy
    ELSE AllowPolicy(event)

\* The handler is invoked and runs to its await: getParameter is called.
AuthorizerInvoke(tok, arn) ==
    /\ CanInvoke
    /\ Proceed(pending,
               [Invocation("authorizer",
                           [authorizationToken |-> tok, methodArn |-> arn])
                   EXCEPT !.pc = "getParameter", !.ssmCalls = 1])
    /\ UNCHANGED <<ssmValue, ssmAvailable, table, now, AUTH_TOKEN, acked,
                   filled, remembered, comparison>>

\* The authorizer with a lockout: once it has denied a request it denies the
\* next one, whatever its token.
AuthorizerResumeLockedOut(c) ==
    /\ c.handler = "authorizer"
    /\ c.pc = "getParameter"
    /\ Proceed(Resume(c),
               IF ssmAvailable
               THEN Returned([c EXCEPT !.token = ssmValue, !.read = TRUE],
                             IF /\ completed.handler = "authorizer"
                                /\ completed.outcome
                                      = [kind |-> "returned", value |-> DenyPolicy]
                             THEN DenyPolicy
                             ELSE AuthorizerPolicy(c.event, ssmValue))
               ELSE Rejected(c, "getParameter failed"))
    /\ UNCHANGED <<ssmValue, ssmAvailable, table, now, AUTH_TOKEN, acked,
                   filled, remembered, comparison>>

\* getParameter(...).promise() settles and the handler runs to its end.  A
\* rejection is not caught: the async handler rejects with the error.
AuthorizerResume(c) ==
    /\ c.handler = "authorizer"
    /\ c.pc = "getParameter"
    /\ Proceed(Resume(c),
               IF ssmAvailable
               THEN Returned([c EXCEPT !.token = ssmValue, !.read = TRUE],
                             AuthorizerPolicy(c.event, ssmValue))
               ELSE Rejected(c, "getParameter failed"))
    /\ UNCHANGED <<ssmValue, ssmAvailable, table, now, AUTH_TOKEN, acked,
                   filled, remembered, comparison>>

NextAuthorizer ==
    \/ \E tok \in PresentedTokens, arn \in MethodArns :
          AuthorizerInvoke(tok, arn)
    \/ \E c \in BagToSet(pending) : AuthorizerResume(c)
    \/ \E v \in StoreValues : PutParameter(v)
    \/ SSMFail
    \/ SSMRecover

SpecAuthorizer == Init /\ [][NextAuthorizer]_vars

(* --------------------------- conversions ------------------------------ *)

HexDigits ==
    <<"0", "1", "2", "3", "4", "5", "6", "7", "8", "9",
      "a", "b", "c", "d", "e", "f">>

ByteToHex(b) == HexDigits[(b \div 16) + 1] \o HexDigits[(b % 16) + 1]

RECURSIVE BytesToHex(_)
\* Buffer.toString("hex"): two lower-case hex digits per byte.
BytesToHex(bytes) ==
    IF bytes = <<>> THEN ""
    ELSE ByteToHex(Head(bytes)) \o BytesToHex(Tail(bytes))

\* crypto.randomBytes(10)
RandomBytesSize == 10

\* The buffers crypto.randomBytes(size) returns in the model: two draws,
\* which differ in every byte.
RandomBytes(size) == { [k \in 1..size |-> b] : b \in {10, 255} }

NewOrderIds == { BytesToHex(bytes) : bytes \in RandomBytes(RandomBytesSize) }

DecimalDigits == <<"0", "1", "2", "3", "4", "5", "6", "7", "8", "9">>

\* new Date().toISOString() at clock reading ms (ms < 10): the first reading
\* is 2021-09-29T15:11:48.620Z.
ToISOString(ms) == "2021-09-29T15:11:48.62" \o DecimalDigits[ms + 1] \o "Z"

RECURSIVE JSONStringify(_), JSONMembers(_)
\* JSON.stringify of a string or of an object of strings and objects; a
\* property whose value is undefined is left out.
JSONStringify(v) ==
    IF v.t = "string" THEN "\"" \o v.v \o "\""
    ELSE "{" \o JSONMembers(v.props) \o "}"

JSONMembers(props) ==
    IF props = <<>> THEN ""
    ELSE LET p == Head(props)
             rest == JSONMembers(Tail(props))
         IN  IF p[2].t = "undefined" THEN rest
             ELSE "\"" \o p[1] \o "\":" \o JSONStringify(p[2])
                  \o (IF rest = "" THEN "" ELSE "," \o rest)

\* o[key], undefined when o has no such property.
Prop(o, key) ==
    IF \E k \in 1..Len(o.props) : o.props[k][1] = key
    THEN o.props[CHOOSE k \in 1..Len(o.props) : o.props[k][1] = key][2]
    ELSE Undefined

(* ------------------------- the orders table --------------------------- *)

\* Item: { orderId: id, orderTime: new Date().toISOString() }
NewItem(id, ms) ==
    Obj(<< <<"orderId", Str(id)>>, <<"orderTime", Str(ToISOString(ms))>> >>)

\* docClient.get: the item with the key, undefined when there is none.
TableGet(t, orderId) ==
    IF \E x \in t : Prop(x, "orderId") = orderId
    THEN CHOOSE x \in t : Prop(x, "orderId") = orderId
    ELSE Undefined

\* docClient.put without a condition: the item replaces the one with its key.
TablePut(t, item) ==
    {x \in t : Prop(x, "orderId") # Prop(item, "orderId")} \cup {item}

\* history: the first item per orderId that a 200 answered
Ack(a, item) ==
    IF \E x \in a : Prop(x, "orderId") = Prop(item, "orderId")
    THEN a ELSE a \cup {item}

Tick ==
    /\ now < MaxClock
    /\ now' = now + 1
    /\ UNCHANGED <<ssmValue, ssmAvailable, table, AUTH_TOKEN, pending,
                   completed, acked, filled, remembered, comparison>>

(* --------------------------- Create Order ----------------------------- *)

Response(statusCode, body) ==
    [statusCode |-> statusCode, body |-> JSONStringify(body)]

Unauthorized == Response(401, Obj(<< <<"message", Str("Unauthorized.")>> >>))

\* the 200 response: { orderId: id }
CreatedResponse(item) ==
    Response(200, Obj(<< <<"orderId", Prop(item, "orderId")>> >>))

CreateHandlers ==
    {"createOrder1", "createOrder3", "createOrder4", "createOrderCached"}

HeaderEvent(authorization) == [headers |-> [Authorization |-> authorization]]

InlineCheckFailsOnlyOnMissing(authorization, token) == Falsy(authorization)

\* !Authorization || Authorization !== AUTH_TOKEN
InlineCheckFails(authorization, token) ==
    Falsy(authorization) \/ StrictNotEquals(authorization, token)

\* From `const id = ...` to the await of the put: the id is drawn, the item
\* is built with the current time and docClient.put is called.
CallPut(c, bytes) ==
    [c EXCEPT !.pc = "put", !.puts = @ + 1,
              !.item = NewItem(BytesToHex(bytes), now)]

\* The check with a 401 that names the token it expected.
AfterCheckDisclosing(c, token, bytes) ==
    LET d == [c EXCEPT !.token = token]
    IN  IF InlineCheckFails(d.event.headers.Authorization, token)
        THEN Returned(d, Response(401,
                 Obj(<< <<"message", Str("Unauthorized.")>>,
                        <<"expected", token>> >>)))
        ELSE CallPut(d, bytes)

\* The check with a lockout: a request that follows a refused one is refused.
AfterCheckLockedOut(c, token, bytes) ==
    LET d == [c EXCEPT !.token = token]
    IN  IF \/ InlineCheckFails(d.event.headers.Authorization, token)
           \/ /\ completed.outcome.kind = "returned"
              /\ completed.outcome.value = Unauthorized
        THEN Returned(d, Unauthorized)
        ELSE CallPut(d, bytes)

\* The check and what follows it: the 401 return, or the call of put.
AfterCheck(c, token, bytes) ==
    LET d == [c EXCEPT !.token = token]
    IN  IF InlineCheckFails(d.event.headers.Authorization, token)
        THEN Returned(d, Unauthorized)
        ELSE CallPut(d, bytes)

\* Step 1 and step 5: no check.
CreateOrder1Invoke(bytes) ==
    /\ CanInvoke
    /\ Proceed(pending, CallPut(Invocation("createOrder1", Obj(<<>>)), bytes))
    /\ UNCHANGED <<ssmValue, ssmAvailable, table, now, AUTH_TOKEN, acked,
                   filled, remembered, comparison>>

\* Step 3: const AUTH_TOKEN = "token123"
HardCodedToken == Str("token123")

CreateOrder3Invoke(authorization, bytes) ==
    /\ CanInvoke
    /\ Proceed(pending,
               AfterCheck(Invocation("createOrder3", HeaderEvent(authorization)),
                          HardCodedToken, bytes))
    /\ UNCHANGED <<ssmValue, ssmAvailable, table, now, AUTH_TOKEN, acked,
                   filled, remembered, comparison>>

\* Step 4 with the header tested before the read: a request without a header
\* is answered without a call to Parameter Store.
CreateOrder4InvokeHeaderFirst(authorization) ==
    /\ CanInvoke
    /\ LET c == Invocation("createOrder4", HeaderEvent(authorization))
       IN  Proceed(pending,
                   IF Falsy(authorization)
                   THEN Returned(c, Unauthorized)
                   ELSE [c EXCEPT !.pc = "getParameter", !.ssmCalls = 1])
    /\ UNCHANGED <<ssmValue, ssmAvailable, table, now, AUTH_TOKEN, acked,
                   filled, remembered, comparison>>

\* Step 4: the handler runs to its first await: getParameter is called.
CreateOrder4Invoke(authorization) ==
    /\ CanInvoke
    /\ Proceed(pending,
               [Invocation("createOrder4", HeaderEvent(authorization))
                   EXCEPT !.pc = "getParameter", !.ssmCalls = 1])
    /\ UNCHANGED <<ssmValue, ssmAvailable, table, now, AUTH_TOKEN, acked,
                   filled, remembered, comparison>>

\* Step 4: getParameter settles.  A rejection is not caught.
CreateOrder4Resume(c, bytes) ==
    /\ c.handler = "createOrder4"
    /\ c.pc = "getParameter"
    /\ Proceed(Resume(c),
               IF ssmAvailable
               THEN AfterCheck([c EXCEPT !.read = TRUE], ssmValue, bytes)
               ELSE Rejected(c, "getParameter failed"))
    /\ UNCHANGED <<ssmValue, ssmAvailable, table, now, AUTH_TOKEN, acked,
                   filled, remembered, comparison>>

PutSettledIgnoringFailure(c, ok) ==
    Returned([c EXCEPT !.putOk = ok], CreatedResponse(c.item))

\* What the handler settles with once its put has: the 200 response, or the
\* rejection of the put, which is not caught.
PutSettled(c, ok) ==
    IF ok THEN Returned([c EXCEPT !.putOk = TRUE], CreatedResponse(c.item))
    ELSE Rejected(c, "put failed")

\* docClient.put(...).promise() settles: the item is written and the handler
\* returns the 200 response, or the request fails and the handler rejects.
CreateOrderPutResume(c, ok) ==
    /\ c.handler \in CreateHandlers
    /\ c.pc = "put"
    /\ table' = IF ok THEN TablePut(table, c.item) ELSE table
    /\ Proceed(Resume(c), PutSettled(c, ok))
    /\ acked' = IF completed'.outcome.kind = "returned"
                THEN Ack(acked, c.item) ELSE acked
    /\ UNCHANGED <<ssmValue, ssmAvailable, now, AUTH_TOKEN, filled,
                   remembered, comparison>>

\* Create Order of steps 1, 3 and 4, with Parameter Store as environment.
NextInline ==
    \/ \E bytes \in RandomBytes(RandomBytesSize) : CreateOrder1Invoke(bytes)
    \/ \E a \in PresentedTokens, bytes \in RandomBytes(RandomBytesSize) :
          CreateOrder3Invoke(a, bytes)
    \/ \E a \in PresentedTokens : CreateOrder4Invoke(a)
    \/ \E c \in BagToSet(pending), bytes \in RandomBytes(RandomBytesSize) :
          CreateOrder4Resume(c, bytes)
    \/ \E c \in BagToSet(pending), ok \in BOOLEAN : CreateOrderPutResume(c, ok)
    \/ \E v \in StoreValues : PutParameter(v)
    \/ SSMFail
    \/ SSMRecover

SpecInline == Init /\ [][NextInline]_vars

\* The handlers that read Parameter Store on every request: the authorizer
\* and Create Order of step 4.
NextUncached ==
    \/ \E tok \in PresentedTokens : AuthorizerInvoke(tok, Str("/orders"))
    \/ \E c \in BagToSet(pending) : AuthorizerResume(c)
    \/ \E a \in PresentedTokens : CreateOrder4Invoke(a)
    \/ \E c \in BagToSet(pending), bytes \in RandomBytes(RandomBytesSize) :
          CreateOrder4Resume(c, bytes)
    \/ \E c \in BagToSet(pending), ok \in BOOLEAN : CreateOrderPutResume(c, ok)
    \/ \E v \in StoreValues : PutParameter(v)
    \/ SSMFail
    \/ SSMRecover

SpecUncached == Init /\ [][NextUncached]_vars

\* The response of the invocation that settled last is kept, to be compared
\* with the response of a later one.
Remember ==
    /\ completed.pc = "done"
    /\ remembered # completed
    /\ remembered' = completed
    /\ UNCHANGED <<ssmValue, ssmAvailable, table, now, AUTH_TOKEN, pending,
                   completed, acked, filled, comparison>>

\* The tokens of the requests whose responses are compared.
ComparedTokens == {Undefined, Str(""), Str("token123")}

\* The authorizer and Create Order of step 4 serving a sequence of requests,
\* one of whose earlier responses is remembered.
NextHistory ==
    \/ \E tok \in ComparedTokens : AuthorizerInvoke(tok, Str("/orders"))
    \/ \E c \in BagToSet(pending) : AuthorizerResume(c)
    \/ \E a \in ComparedTokens : CreateOrder4Invoke(a)
    \/ \E c \in BagToSet(pending) :
          CreateOrder4Resume(c, [k \in 1..RandomBytesSize |-> 10])
    \/ \E c \in BagToSet(pending), ok \in BOOLEAN : CreateOrderPutResume(c, ok)
    \/ \E v \in StoreValues : PutParameter(v)
    \/ SSMFail
    \/ SSMRecover
    \/ Remember

SpecHistory == Init /\ [][NextHistory]_vars

(* ---------------------------- Get Order ------------------------------- *)

\* const { orderId } = event.pathParameters, then docClient.get is called.
GetOrderInvoke(id) ==
    /\ CanInvoke
    /\ Proceed(pending,
               [Invocation("getOrder", [pathParameters |-> [orderId |-> Str(id)]])
                   EXCEPT !.pc = "get",
                          !.afterAck = \E a \in acked :
                                          Prop(a, "orderId") = Str(id)])
    /\ UNCHANGED <<ssmValue, ssmAvailable, table, now, AUTH_TOKEN, acked,
                   filled, remembered, comparison>>

\* docClient.get(...).promise() settles: the handler returns 200 with
\* { order: response.Item }, or the request fails and the handler rejects.
GetOrderResume(c, ok) ==
    /\ c.handler = "getOrder"
    /\ c.pc = "get"
    /\ Proceed(Resume(c),
               IF ok
               THEN Returned(c, Response(200,
                        Obj(<< <<"order",
                                 TableGet(table,
                                          c.event.pathParameters.orderId)>> >>)))
               ELSE Rejected(c, "get failed"))
    /\ UNCHANGED <<ssmValue, ssmAvailable, table, now, AUTH_TOKEN, acked,
                   filled, remembered, comparison>>

\* Create Order of step 5 and Get Order on the orders table.
NextOrders ==
    \/ \E bytes \in RandomBytes(RandomBytesSize) : CreateOrder1Invoke(bytes)
    \/ \E c \in BagToSet(pending), ok \in BOOLEAN : CreateOrderPutResume(c, ok)
    \/ \E id \in NewOrderIds : GetOrderInvoke(id)
    \/ \E c \in BagToSet(pending), ok \in BOOLEAN : GetOrderResume(c, ok)
    \/ Tick

SpecOrders == Init /\ [][NextOrders]_vars

(* ------------------- Create Order, cached variant --------------------- *)

CacheEmptyAlways(token) == TRUE

\* if (!AUTH_TOKEN)
CacheEmpty(token) == Falsy(token)

\* The handler tests the module-level AUTH_TOKEN: when it is falsy the
\* handler calls getParameter and awaits it; otherwise it goes on with the
\* value AUTH_TOKEN holds.  The statements after the fill are those of step 4.
CreateOrderCachedInvoke(authorization, bytes) ==
    /\ CanInvoke
    /\ LET c == Invocation("createOrderCached", HeaderEvent(authorization))
       IN  Proceed(pending,
                   IF CacheEmpty(AUTH_TOKEN)
                   THEN [c EXCEPT !.pc = "getParameter", !.ssmCalls = 1]
                   ELSE AfterCheck(c, AUTH_TOKEN, bytes))
    /\ UNCHANGED <<ssmValue, ssmAvailable, table, now, AUTH_TOKEN, acked,
                   filled, remembered, comparison>>

\* getParameter settles: AUTH_TOKEN = parameterResponse.Parameter.Value, and
\* the handler goes on; a rejection is not caught and assigns nothing.
CreateOrderCachedResume(c, bytes) ==
    /\ c.handler = "createOrderCached"
    /\ c.pc = "getParameter"
    /\ AUTH_TOKEN' = IF ssmAvailable THEN ssmValue ELSE AUTH_TOKEN
    /\ filled' = (filled \/ ssmAvailable)
    /\ Proceed(Resume(c),
               IF ssmAvailable
               THEN AfterCheck([c EXCEPT !.read = TRUE], ssmValue, bytes)
               ELSE Rejected(c, "getParameter failed"))
    /\ UNCHANGED <<ssmValue, ssmAvailable, table, now, acked, remembered,
                   comparison>>

\* One function instance of the cached variant, with Parameter Store as
\* environment.
NextCached ==
    \/ \E a \in PresentedTokens, bytes \in RandomBytes(RandomBytesSize) :
          CreateOrderCachedInvoke(a, bytes)
    \/ \E c \in BagToSet(pending), bytes \in RandomBytes(RandomBytesSize) :
          CreateOrderCachedResume(c, bytes)
    \/ \E c \in BagToSet(pending), ok \in BOOLEAN : CreateOrderPutResume(c, ok)
    \/ \E v \in StoreValues : PutParameter(v)
    \/ SSMFail
    \/ SSMRecover

SpecCached == Init /\ [][NextCached]_vars

(* ---------------------- the token comparison -------------------------- *)

TokenAlphabet == {"a", "b"}

RECURSIVE TokensOfLength(_)
TokensOfLength(n) ==
    IF n = 0 THEN {""}
    ELSE {ch \o t : ch \in TokenAlphabet, t \in TokensOfLength(n - 1)}

TokenStrings == UNION {TokensOfLength(n) : n \in 0..MaxTokenLen}

\* The number of leading code units in which strings a and b agree.
CommonPrefix(a, b) ==
    LET m == IF Len(a) < Len(b) THEN Len(a) ELSE Len(b)
    IN  CHOOSE k \in 0..m :
           /\ \A i \in 1..k : SubSeq(a, i, i) = SubSeq(b, i, i)
           /\ k = m \/ SubSeq(a, k + 1, k + 1) # SubSeq(b, k + 1, k + 1)

\* a !== b on a token and a credential.  The operator is the language's
\* built-in one: it is true unless both are strings of the same length with
\* the same code units, and the language leaves open how many pairs of code
\* units an evaluation examines.  An engine that scans from the left examines
\* none when an operand is not a string; when the lengths differ it may stop
\* at once or at the first pair that differs; when they are equal it examines
\* at least the pairs up to the first that differs and at most all of them.
CodeUnitsExamined(a, b) ==
    IF a.t # "string" \/ b.t # "string" THEN {0}
    ELSE LET k == CommonPrefix(a.v, b.v)
             stop == IF k < Len(a.v) /\ k < Len(b.v) THEN k + 1 ELSE k
         IN  IF Len(a.v) # Len(b.v) THEN 0..stop ELSE stop..Len(a.v)

\* One evaluation of `presented !== credential`, which examines n pairs.
Compare(presented, credential, n) ==
    /\ n \in CodeUnitsExamined(presented, credential)
    /\ comparison' = [presented |-> presented, credential |-> credential,
                      differ |-> StrictNotEquals(presented, credential),
                      examined |-> n]
    /\ UNCHANGED <<ssmValue, ssmAvailable, table, now, AUTH_TOKEN, pending,
                   completed, acked, filled, remembered>>

NextCompare ==
    \E presented \in {Undefined} \cup {Str(t) : t \in TokenStrings},
       credential \in {Str(t) : t \in TokenStrings},
       n \in 0..MaxTokenLen :
          Compare(presented, credential, n)

SpecCompare == Init /\ [][NextCompare]_vars

(* ======================= claims: authorizer =========================== *)

AuthorizerSettled == completed.handler = "authorizer"

\* C1: an authorizer invocation whose authorizationToken equals the value
\* Parameter Store returned to it returns the policy with the single
\* statement Allow on event.methodArn.
C1_MatchingTokenAllowsMethodArn ==
    (AuthorizerSettled /\ completed.read
        /\ completed.event.authorizationToken = completed.token)
    => /\ completed.outcome.kind = "returned"
       /\ Len(completed.outcome.value.policyDocument.Statement) = 1
       /\ completed.outcome.value.policyDocument.Statement[1].Effect = "Allow"
       /\ completed.outcome.value.policyDocument.Statement[1].Resource
             = completed.event.methodArn

C1_Witness ==
    /\ AuthorizerSettled /\ completed.read
    /\ completed.token = Str("token123")
    /\ completed.event = [authorizationToken |-> Str("token123"),
                          methodArn |-> Str("/orders")]
    /\ completed.outcome.kind = "returned"

\* C2: an authorizer invocation whose authorizationToken is absent or ""
\* that returns, returns Deny on "*", whatever value the parameter holds.
C2_AbsentOrEmptyTokenDenied ==
    (AuthorizerSettled
        /\ completed.event.authorizationToken \in {Undefined, Str("")}
        /\ completed.outcome.kind = "returned")
    => completed.outcome.value = DenyPolicy

\* C3: an authorizer invocation whose authorizationToken differs from the
\* credential it read returns Deny on "*", whatever its methodArn.
C3_WrongTokenDeniedOnWildcard ==
    (AuthorizerSettled /\ completed.read
        /\ completed.event.authorizationToken # completed.token)
    => completed.outcome = [kind |-> "returned", value |-> DenyPolicy]

C3_Witness ==
    /\ AuthorizerSettled /\ completed.read
    /\ completed.token = Str("token123")
    /\ completed.event = [authorizationToken |-> Str("token124"),
                          methodArn |-> Str("/orders/77")]
    /\ completed.outcome.kind = "returned"

\* C4: an authorizer invocation whose getParameter call failed still
\* returns the Deny policy on "*": it neither allows nor rejects.
C4_FailClosed ==
    (AuthorizerSettled /\ ~completed.read)
    => completed.outcome = [kind |-> "returned", value |-> DenyPolicy]

(* ===================== claims: Create Order =========================== *)

Invocations == BagToSet(pending) \cup {completed}

Is401(c) ==
    /\ c.outcome.kind = "returned"
    /\ c.outcome.value =
          [statusCode |-> 401, body |-> "{\"message\":\"Unauthorized.\"}"]

Is200(c) ==
    /\ c.outcome.kind = "returned"
    /\ c.outcome.value.statusCode = 200

\* The invocation has evaluated the inline check of step 3 or step 4.
ReachedCheck(c) ==
    \/ c.handler = "createOrder3"
    \/ c.handler = "createOrder4" /\ c.read

HeaderRefused(c) ==
    \/ c.event.headers.Authorization \in {Undefined, Str("")}
    \/ c.event.headers.Authorization # c.token

\* C5: a Create Order invocation of step 3 or 4 whose Authorization header is
\* missing or differs from the token returns 401 {"message":"Unauthorized."}
\* and has issued no put; only an invocation whose header equals the token
\* ever issues one, and the step that returns a 401 leaves the table as it is.
C5_RefusedRequestPutsNothing ==
    /\ [](\A c \in Invocations :
            c.handler \in {"createOrder3", "createOrder4"} =>
               /\ (ReachedCheck(c) /\ HeaderRefused(c))
                     => (Is401(c) /\ c.puts = 0 /\ c.item = NoItem)
               /\ c.puts > 0 => (ReachedCheck(c) /\ ~HeaderRefused(c)))
    /\ [][(completed' # completed /\ Is401(completed')) => table' = table]_vars

C5_Witness ==
    /\ completed.handler = "createOrder4"
    /\ completed.read
    /\ completed.token = Str("token123")
    /\ completed.event.headers.Authorization = Str("token124")
    /\ Is401(completed)
    /\ table # {}

\* The invocation is past the check, or has none (step 1 and step 5).
Admitted(c) ==
    \/ c.handler = "createOrder1"
    \/ c.handler \in {"createOrder3", "createOrder4"}
          /\ ReachedCheck(c) /\ ~HeaderRefused(c)

IsOrderItem(item) ==
    /\ item.t = "object"
    /\ Len(item.props) = 2
    /\ item.props[1][1] = "orderId" /\ item.props[1][2].t = "string"
    /\ item.props[2][1] = "orderTime" /\ item.props[2][2].t = "string"

\* C6: an admitted Create Order invocation has issued exactly one put, of an
\* item {orderId, orderTime}; a 200 is returned only by an admitted
\* invocation whose put has resolved, its body is {"orderId": id} with the
\* id of that item, and the item is in the table when the 200 is returned.
C6_OnePutThen200 ==
    /\ [](\A c \in Invocations :
            c.handler \in {"createOrder1", "createOrder3", "createOrder4"} =>
               /\ Admitted(c) => (c.puts = 1 /\ IsOrderItem(c.item))
               /\ Is200(c) =>
                     /\ Admitted(c) /\ c.puts = 1 /\ c.putOk
                     /\ c.outcome.value.body =
                           "{\"orderId\":\"" \o c.item.props[1][2].v \o "\"}")
    /\ [][(completed' # completed /\ Is200(completed'))
             => /\ completed'.item \in table'
                /\ \E c \in BagToSet(pending) :
                      /\ c.pc = "put"
                      /\ completed' = [c EXCEPT !.pc = "done", !.putOk = TRUE,
                                                !.outcome = completed'.outcome]
          ]_vars

C6_Witness ==
    /\ completed.handler = "createOrder4"
    /\ completed.event.headers.Authorization = Str("token124")
    /\ Is200(completed)
    /\ completed.outcome.value.body = "{\"orderId\":\"0a0a0a0a0a0a0a0a0a0a\"}"
    /\ completed.item \in table

(* ================== claims: Create Order and Get Order ================= *)

\* C7: a Get Order invocation that begins after a Create Order returned 200
\* with its orderId, and that returns, returns 200 with body.order being the
\* item that Create Order stored (same orderId and orderTime).
C7_GetReturnsTheCreatedOrder ==
    (completed.handler = "getOrder" /\ completed.afterAck
        /\ completed.outcome.kind = "returned")
    => \A a \in acked :
          Prop(a, "orderId") = completed.event.pathParameters.orderId
          => completed.outcome.value =
                [statusCode |-> 200,
                 body |-> "{\"order\":{\"orderId\":\"" \o Prop(a, "orderId").v
                          \o "\",\"orderTime\":\"" \o Prop(a, "orderTime").v
                          \o "\"}}"]

(* ======================= claims: cached variant ======================== *)

FetchesInFlight ==
    {c \in BagToSet(pending) :
        c.handler = "createOrderCached" /\ c.pc = "getParameter"}

\* C8: of the invocations of the cached variant that overlap, at most one
\* has a getParameter call in flight.
C8_SingleFlight ==
    /\ Cardinality(FetchesInFlight) <= 1
    /\ \A c \in FetchesInFlight : CopiesIn(c, pending) = 1

\* An invocation that is suspended at c after this step and was not before.
Begins(c) == CopiesIn(c, pending') > CopiesIn(c, pending)

\* C9: once a getParameter result has been assigned to AUTH_TOKEN, no
\* invocation that begins later calls getParameter, whatever the value was.
C9_FetchedOnce ==
    [][filled => \A c \in BagToSet(pending') :
                    Begins(c) => c.pc # "getParameter"]_vars

\* C10: while AUTH_TOKEN holds a cached credential (a value that passes the
\* handler's own test of a filled cache) and Parameter Store is unavailable,
\* AUTH_TOKEN keeps its value and an invocation that begins calls no
\* getParameter and is decided by that value: it returns 401 when its header
\* is missing or differs from AUTH_TOKEN, and calls put otherwise.
C10_StaleTolerant ==
    [][(~ssmAvailable /\ ~Falsy(AUTH_TOKEN)) =>
          /\ AUTH_TOKEN' = AUTH_TOKEN
          /\ \A c \in BagToSet(pending') :
                Begins(c) =>
                   /\ c.pc = "put" /\ c.ssmCalls = 0
                   /\ c.token = AUTH_TOKEN
                   /\ c.event.headers.Authorization = AUTH_TOKEN
          /\ (completed' # completed /\ pending' = pending) =>
                /\ Is401(completed') /\ completed'.ssmCalls = 0
                /\ completed'.token = AUTH_TOKEN
                /\ HeaderRefused(completed')
      ]_vars

\* An invocation admitted from the cache while Parameter Store is down.
C10_Witness ==
    /\ ~ssmAvailable
    /\ AUTH_TOKEN = Str("token123")
    /\ \E c \in BagToSet(pending) :
          /\ c.handler = "createOrderCached" /\ c.pc = "put"
          /\ c.ssmCalls = 0 /\ c.token = Str("token123")
    /\ completed.handler = "createOrderCached"
    /\ completed.ssmCalls = 0 /\ Is401(completed)

(* =================== claims: authorizer, continued ===================== *)

\* C12: an authorizer invocation whose event has no methodArn and that
\* returns, returns the Deny policy on "*", also when its token equals the
\* stored credential.
C12_MissingMethodArnDenied ==
    (AuthorizerSettled /\ completed.event.methodArn = Undefined
        /\ completed.outcome.kind = "returned")
    => completed.outcome.value = DenyPolicy

\* C18: every policy the authorizer returns has principalId "vendor",
\* Version "2012-10-17" and exactly one statement, with Action
\* "execute-api:Invoke" and either Effect "Deny" on "*" or Effect "Allow" on
\* event.methodArn.
C18_PolicyShape ==
    (AuthorizerSettled /\ completed.outcome.kind = "returned") =>
       LET policy == completed.outcome.value
           statements == policy.policyDocument.Statement
       IN  /\ DOMAIN policy = {"principalId", "policyDocument"}
           /\ policy.principalId = "vendor"
           /\ DOMAIN policy.policyDocument = {"Version", "Statement"}
           /\ policy.policyDocument.Version = "2012-10-17"
           /\ Len(statements) = 1
           /\ DOMAIN statements[1] = {"Action", "Effect", "Resource"}
           /\ statements[1].Action = "execute-api:Invoke"
           /\ \/ /\ statements[1].Effect = "Deny"
                 /\ statements[1].Resource = Str("*")
                 /\ statements[1].Resource # completed.event.methodArn
              \/ /\ statements[1].Effect = "Allow"
                 /\ statements[1].Resource = completed.event.methodArn

\* A Deny returned to a request for "/orders".
C18_Witness ==
    /\ AuthorizerSettled /\ completed.outcome.kind = "returned"
    /\ completed.event.methodArn = Str("/orders")
    /\ completed.event.authorizationToken = Undefined
    /\ completed.outcome.value.policyDocument.Statement[1].Effect = "Deny"

(* =================== claims: Create Order, continued =================== *)

\* C15: every Create Order invocation that ends, ends by returning a
\* response object with a statusCode and a body; none ends rejected.
C15_AlwaysResponds ==
    completed.handler \in CreateHandlers =>
       /\ completed.outcome.kind = "returned"
       /\ DOMAIN completed.outcome.value = {"statusCode", "body"}

(* ==================== claims: uncached handlers ======================== *)

Uncached(c) == c.handler \in {"authorizer", "createOrder4"}

\* The invocation has compared a token: it returned, or it went on to put.
Compared(c) == c.outcome.kind = "returned" \/ c.puts > 0

\* C14: every invocation of the authorizer and of step-4 Create Order has
\* issued exactly one getParameter call, whatever token it carries; it has
\* compared a token only after that call resolved, and the value it compared
\* with is the one its own call returned, which is the value Parameter Store
\* holds when the call settles.
C14_OneReadPerInvocation ==
    /\ [](\A c \in Invocations :
            Uncached(c) =>
               /\ c.ssmCalls = 1
               /\ Compared(c) => c.read
               /\ ~c.read => (c.token = Undefined /\ c.puts = 0))
    /\ [][/\ (completed' # completed /\ Uncached(completed')
                 /\ completed'.pc = "done" /\ completed'.puts = 0)
              => \/ ~completed'.read
                 \/ completed'.token = ssmValue
           /\ \A c \in BagToSet(pending') :
                 (Begins(c) /\ Uncached(c) /\ c.pc = "put")
                    => c.token = ssmValue
          ]_vars

\* A request without a header that was refused after one getParameter call.
C14_Witness ==
    /\ completed.handler = "createOrder4"
    /\ completed.event.headers.Authorization = Undefined
    /\ completed.ssmCalls = 1 /\ completed.read
    /\ completed.token = Str("token124")
    /\ Is401(completed)
    /\ \E c \in BagToSet(pending) :
          c.handler = "authorizer" /\ c.ssmCalls = 1

(* ================= claims: a sequence of requests ====================== *)

IsDenyPolicy(c) == c.outcome = [kind |-> "returned", value |-> DenyPolicy]

\* C11: two authorizer invocations with the same authorizationToken and
\* methodArn, each of which read the same credential, return the same policy,
\* whatever was served between them.
C11_SameRequestSamePolicy ==
    (/\ remembered.handler = "authorizer" /\ completed.handler = "authorizer"
     /\ remembered.read /\ completed.read
     /\ remembered.event = completed.event
     /\ remembered.token = completed.token)
    => /\ remembered.outcome.kind = "returned"
       /\ completed.outcome = remembered.outcome

\* The request was allowed before and is allowed again, after Create Order
\* served requests and the table changed.
C11_Witness ==
    /\ remembered.handler = "authorizer" /\ completed.handler = "authorizer"
    /\ remembered.read /\ completed.read
    /\ remembered.event = completed.event
    /\ completed.event.authorizationToken = Str("token123")
    /\ remembered.token = Str("token123") /\ completed.token = Str("token123")
    /\ completed.outcome.kind = "returned"
    /\ table # {}

\* The request was refused: a Deny policy, or a 401.
Refused(c) ==
    \/ c.handler = "authorizer" /\ IsDenyPolicy(c)
    \/ c.handler = "createOrder4" /\ Is401(c)

\* The token the request presents.
Presented(c) ==
    IF c.handler = "authorizer" THEN c.event.authorizationToken
    ELSE c.event.headers.Authorization

\* The request presents the credential its invocation read.
Correct(c) ==
    /\ Uncached(c) /\ c.read
    /\ ~Falsy(Presented(c)) /\ Presented(c) = c.token

\* The request was let through: Allow on its methodArn, or the put was called
\* and, when it resolved, the 200 returned.
Allowed(c) ==
    \/ /\ c.handler = "authorizer"
       /\ c.outcome = [kind |-> "returned", value |-> AllowPolicy(c.event)]
    \/ /\ c.handler = "createOrder4"
       /\ c.puts = 1 /\ ~Is401(c)
       /\ c.putOk => Is200(c)

\* C13: after requests were refused, a request that presents the credential
\* its invocation reads is let through, by the authorizer (Allow on its
\* methodArn) and by step-4 Create Order (the put, then 200); and the step
\* that refuses a request changes nothing a later decision reads.
C13_NoLockout ==
    /\ []((Refused(remembered) /\ Correct(completed)) => Allowed(completed))
    /\ [][(completed' # completed /\ Refused(completed'))
             => UNCHANGED <<ssmValue, ssmAvailable, AUTH_TOKEN, table>>]_vars

\* A 401 for a wrong token, later a 200 for the right one.
C13_Witness ==
    /\ remembered.handler = "createOrder4" /\ Is401(remembered)
    /\ remembered.event.headers.Authorization = Str("token123")
    /\ remembered.token = Str("token124")
    /\ completed.handler = "createOrder4" /\ Correct(completed)
    /\ Is200(completed)

(* ================ claims: what a response discloses ==================== *)

\* a occurs in b
ContainsString(a, b) ==
    \E i \in 1..(Len(b) - Len(a) + 1) : SubSeq(b, i, i + Len(a) - 1) = a

\* The strings of the response the invocation returned.
ResponseStrings(c) ==
    IF c.handler = "authorizer"
    THEN LET policy == c.outcome.value
             statement == policy.policyDocument.Statement[1]
         IN  {policy.principalId, policy.policyDocument.Version,
              statement.Action, statement.Effect}
             \cup (IF statement.Resource.t = "string"
                   THEN {statement.Resource.v} ELSE {})
    ELSE {c.outcome.value.body}

\* C16: the credential an invocation read occurs in no string of the response
\* it returns; and two invocations of the same handler with the same request
\* that read different credentials, neither of them the presented token,
\* return the same refusal.
C16_CredentialNotDisclosed ==
    /\ (Uncached(completed) /\ completed.read /\ ~Falsy(completed.token)
          /\ completed.outcome.kind = "returned")
       => \A str \in ResponseStrings(completed) :
              ~ContainsString(completed.token.v, str)
    /\ (/\ Uncached(completed) /\ remembered.handler = completed.handler
        /\ remembered.read /\ completed.read
        /\ remembered.event = completed.event
        /\ remembered.token # completed.token
        /\ Presented(completed) \notin {remembered.token, completed.token})
       => /\ Refused(completed)
          /\ completed.outcome = remembered.outcome

\* The same wrong token was refused under two different credentials.
C16_Witness ==
    /\ remembered.handler = "createOrder4" /\ completed.handler = "createOrder4"
    /\ remembered.event = completed.event
    /\ Presented(completed) = Str("token123")
    /\ remembered.token = Str("token124") /\ completed.token = Str("")
    /\ Is401(remembered) /\ Is401(completed)

\* C19: for a presented token and a stored credential, the authorizer returns
\* Allow exactly when step-4 Create Order, given the same token and having
\* read the same credential, does not return 401.
C19_SameAdmissionLogic ==
    (/\ remembered.handler = "createOrder4" /\ completed.handler = "authorizer"
     /\ remembered.read /\ completed.read
     /\ Presented(remembered) = Presented(completed)
     /\ remembered.token = completed.token)
    => (completed.outcome.value.policyDocument.Statement[1].Effect = "Allow"
           <=> ~Is401(remembered))

(* ===================== claims: token rotation ========================== *)

\* The uncached half of C20: once an invocation has decided with credential
\* A and OrderToken holds another value B, an uncached invocation whose
\* getParameter call settles decides with B: it lets through the request
\* that presents B and refuses the one that presents A.
UncachedFollowsRotation ==
    [][(/\ Uncached(remembered) /\ remembered.read
        /\ remembered.token # ssmValue
        /\ completed' # completed /\ Uncached(completed')
        /\ completed'.read /\ completed'.puts = 0)
       => /\ completed'.token = ssmValue
          /\ Presented(completed') = remembered.token => Refused(completed')
          /\ (Presented(completed') = ssmValue
                /\ completed'.handler = "authorizer") => Allowed(completed')
      ]_vars

\* C20 (cached variant): once AUTH_TOKEN holds a credential A it keeps it,
\* whatever OrderToken is changed to, and every invocation that begins is
\* decided by A: it goes on to put when its header is A and returns 401
\* otherwise.
C20_CachedInstanceKeepsToken ==
    [][~Falsy(AUTH_TOKEN) =>
          /\ AUTH_TOKEN' = AUTH_TOKEN
          /\ \A c \in BagToSet(pending') :
                Begins(c) =>
                   /\ c.pc = "put"
                   /\ c.event.headers.Authorization = AUTH_TOKEN
          /\ (completed' # completed /\ pending' = pending) =>
                /\ Is401(completed')
                /\ completed'.event.headers.Authorization # AUTH_TOKEN
      ]_vars

(* =================== claims: the token comparison ====================== *)

\* C17: an evaluation of the token comparison examines every code unit of
\* the credential, whatever the presented token's length and wherever the two
\* first differ.
C17_FixedTimeComparison ==
    comparison.examined = Len(comparison.credential.v)

(* ================ claims: the orders table, continued ================== *)

\* C21: at every step of Create Order, each item that a 200 answered is
\* still in the table under its orderId, and a step in which a put resolves
\* and the 200 is returned adds exactly one item to the table.
C21_CreateKeepsOrders ==
    [][/\ \A a \in acked' : TableGet(table', Prop(a, "orderId")) = a
       /\ (completed' # completed /\ completed'.handler \in CreateHandlers
             /\ Is200(completed'))
          => Cardinality(table') = Cardinality(table) + 1
      ]_vars

====
